---- MODULE Spec2Model ----
(***************************************************************************)
(* Model of the window_controller crate.                                   *)
(*                                                                         *)
(*   Part I  : the enumeration engine of src/window_controller.rs          *)
(*             (find / find_one / find_all and the EnumWindows callback),  *)
(*             run by several threads over the process-wide statics.       *)
(*   Part II : the capture engine of src/window_image.rs                   *)
(*             (create_window_image_with_bounds), one call stepped through *)
(*             its chain of GDI acquisitions.                              *)
(***************************************************************************)
EXTENDS Integers, Sequences, FiniteSets, TLC

(***************************************************************************)
(* Bounds of the model.                                                    *)
(***************************************************************************)
\* number of distinct window handles the OS may hand to the callback
NumHandles == 3
\* width in bits of the machine integer that stands for i32: the capture
\* arithmetic is done exactly as in the source, on a narrower word, so that
\* the whole signed range of width and height is enumerated
IntBits == 6
\* the threads that call find concurrently, each calling once
Threads == {"t1", "t2"}
NoThread == "none"
Handles == 1..NumHandles

(***************************************************************************)
(* Option<T> values: None and Some(v).                                     *)
(***************************************************************************)
None == <<"None">>
Some(v) == <<"Some", v>>
IsSome(o) == o[1] = "Some"
Unwrap(o) == o[2]

(***************************************************************************)
(* The top-level window lists EnumWindows can walk: each window is reported *)
(* once.  Handles are opaque, so up to renaming the list of all windows is  *)
(* 1, 2, .., n; the reversed list is kept as well, so that iteration order  *)
(* and handle order differ, and the empty list (no window at all).  Which   *)
(* windows match, and where, is the filter's choice.                        *)
(***************************************************************************)
WindowLists ==
    { <<>>,
      [i \in 1..NumHandles |-> i],
      [i \in 1..NumHandles |-> NumHandles + 1 - i] }

\* A caller-supplied filter is modelled by the set of handles it accepts.
Filters == SUBSET Handles
ApplyFilter(f, h) == h \in f

VARIABLES
    \* ---- process-wide statics of window_controller.rs ----
    WINDOW_COLLECTOR_LOCK,  \* NoThread = free, otherwise the thread that owns the guard
    WINDOW_FILTER,          \* Option<filter>
    STOP_AFTER_FIRST,       \* bool
    FOUND_WINDOWS,          \* Vec<WindowController>
    \* ---- the OS ----
    os_windows,             \* the top-level window list, in OS iteration order
    \* ---- per thread: the frame of find and of its caller ----
    pc,                     \* position of the thread
    api,                    \* "find_one" or "find_all": the public entry used
    filter,                 \* the filter argument of find
    find_one,               \* the find_one argument of find
    enum_pos,               \* index of the next window EnumWindows reports
    windows,                \* the local `windows` of find (the clone)
    result,                 \* what the public entry returned
    \* ---- history, per thread, of the current session ----
    visited,                \* handles the callback was invoked on, in order
    pushed,                 \* handles this thread's callback pushed
    enum_failed,            \* EnumWindows ended by an OS failure
    \* ---- history of the last finished session ----
    last_found,             \* Option: the vector the last finished find returned
    last_filter,            \* Option: the filter of the last finished find
    \* ---- one call of create_window_image_with_bounds ----
    cap_pc,                 \* position of the call
    overflow_checks,        \* the build panics on integer overflow (debug) or wraps
    bounds,                 \* the argument [x, y, width, height]
    padding,                \* [left, top, right, bottom]
    padded_size,            \* [width, height] of the bitmap
    acquired,               \* GDI resources acquired, in order
    released,               \* GDI resources released, in order
    bits_len,               \* length of the `bits` vector
    pixels_len,             \* length of the `pixels` vector
    outcome,                \* how the call ended
    image,                  \* the WindowImage of an Ok return
    \* ---- the OS: one window, as the style calls see it ----
    win_style,              \* the GWL_STYLE word
    win_exstyle,            \* the GWL_EXSTYLE word
    win_topmost,            \* the window is in the topmost band
    win_rect,               \* [x, y, width, height]
    win_colorkey,           \* Option: colour key of the layered window
    \* ---- per WindowStyle object ----
    epc,                    \* "none", "open" (alive) or "dropped"
    style_flags,            \* field style_flags
    extended_style_flags,   \* field extended_style_flags
    always_on_top,          \* field always_on_top
    target_position,        \* field target_position
    \* ---- history, per WindowStyle object ----
    snapshot,               \* the window as it was when the object was created
    ops,                    \* setters called so far: "none", "one" or "many"
    last_op,                \* the setter call, while it is the only one
    setter_calls,           \* OS calls changing the window issued inside setters
    last_applied,           \* whose apply wrote the window last
    \* ---- the OS: window titles, and the argument of find_by_title ----
    window_titles,          \* per handle: the title, a sequence of UTF-16 units
    needle,                 \* the title argument, a sequence of chars
    \* ---- per thread: the filter calls find on the thread it runs on ----
    reentrant

enumVars == <<WINDOW_COLLECTOR_LOCK, WINDOW_FILTER, STOP_AFTER_FIRST,
              FOUND_WINDOWS, os_windows, pc, api, filter, find_one, enum_pos,
              windows, result, visited, pushed, enum_failed,
              last_found, last_filter>>

capVars == <<cap_pc, overflow_checks, bounds, padding, padded_size, acquired,
             released, bits_len, pixels_len, outcome, image>>

styleVars == <<win_style, win_exstyle, win_topmost, win_rect, win_colorkey,
               epc, style_flags, extended_style_flags, always_on_top,
               target_position, snapshot, ops, last_op, setter_calls,
               last_applied>>

titleVars == <<window_titles, needle>>

reVars == <<reentrant>>

vars == <<enumVars, capVars, styleVars, titleVars, reVars>>

\* What each part of the model leaves alone.
restOfEnum == <<capVars, styleVars, titleVars, reVars>>
restOfCapture == <<enumVars, styleVars, titleVars, reVars>>
restOfStyle == <<enumVars, capVars, titleVars, reVars>>

(***************************************************************************)
(* Part I.  The enumeration engine.                                        *)
(***************************************************************************)

\* The statements of find, in program order (window_controller.rs:56-63):
\*   lock     56  WINDOW_COLLECTOR_LOCK.lock().unwrap()
\*   install  57  WINDOW_FILTER = Some(Box::new(filter))
\*   setstop  58  STOP_AFTER_FIRST = find_one
\*   reset    59  FOUND_WINDOWS = Vec::new()
\*   enum     60  EnumWindows(Some(externally_get_window_controllers), 0)
\*   clone    61  let windows = FOUND_WINDOWS.clone()
\*   drop     62  drop(collect_lock)
\*   ret      63  windows
\* variant: the guard is dropped before the accumulator is cloned
PcAfterDropBeforeClone(p) ==
    CASE p = "lock"    -> "install"
      [] p = "install" -> "setstop"
      [] p = "setstop" -> "reset"
      [] p = "reset"   -> "enum"
      [] p = "enum"    -> "drop"
      [] p = "drop"    -> "clone"
      [] p = "clone"   -> "ret"
      [] p = "ret"     -> "done"

\* the program order above
PcAfter(p) ==
    CASE p = "lock"    -> "install"
      [] p = "install" -> "setstop"
      [] p = "setstop" -> "reset"
      [] p = "reset"   -> "enum"
      [] p = "enum"    -> "clone"
      [] p = "clone"   -> "drop"
      [] p = "drop"    -> "ret"
      [] p = "ret"     -> "done"

\* variant: lock() never waits
LockAvailableNoMutex(t) == TRUE

\* Mutex::lock blocks until no other guard is alive.
LockAvailable(t) == WINDOW_COLLECTOR_LOCK = NoThread

\* find_one passes true, find_all passes false (lines 39 and 49).
StopFlagOf(a) == a = "find_one"

\* variant: the accumulator is not reset
FoundNotReset == FOUND_WINDOWS

\* FOUND_WINDOWS = Vec::new() (line 59).
FoundAtSessionStart == <<>>

\* variant: the callback pushes every window
CallbackMatchesAlways(h) == TRUE

\* The callback's test (line 70): the installed filter applied to the handle.
CallbackMatches(h) == ApplyFilter(Unwrap(WINDOW_FILTER), h)

\* variant: the callback never stops the enumeration
CallbackReturnAlwaysTrue(matched) == TRUE

\* The callback's return value (lines 72-76): FALSE stops EnumWindows.
CallbackReturn(matched) == ~(matched /\ STOP_AFTER_FIRST)

\* variant: the accumulator is taken (left empty) instead of cloned
FoundAfterTake == <<>>

\* FOUND_WINDOWS after line 61: clone() leaves the static as it is.
FoundAfterClone == FOUND_WINDOWS

\* find_one's conversion of the vector (lines 40-44).
FindOneResult(found) == IF found = <<>> THEN None ELSE Some(found[1])

\* What the public entry hands to its caller.
ApiResult(a, found) == IF a = "find_one" THEN FindOneResult(found) ELSE found

InitEnum ==
    /\ WINDOW_COLLECTOR_LOCK = NoThread
    /\ WINDOW_FILTER = None
    /\ STOP_AFTER_FIRST = FALSE
    /\ FOUND_WINDOWS = <<>>
    /\ os_windows \in WindowLists
    /\ pc = [t \in Threads |-> "idle"]
    /\ api = [t \in Threads |-> "find_all"]
    /\ filter = [t \in Threads |-> {}]
    /\ find_one = [t \in Threads |-> FALSE]
    /\ enum_pos = [t \in Threads |-> 1]
    /\ windows = [t \in Threads |-> <<>>]
    /\ result = [t \in Threads |-> <<>>]
    /\ visited = [t \in Threads |-> <<>>]
    /\ pushed = [t \in Threads |-> <<>>]
    /\ enum_failed = [t \in Threads |-> FALSE]
    /\ last_found = None
    /\ last_filter = None

\* A thread enters find_one(f) or find_all(f): find(filter, find_one) is called.
Call(t, a, f) ==
    /\ pc[t] = "idle"
    /\ pc' = [pc EXCEPT ![t] = "lock"]
    /\ api' = [api EXCEPT ![t] = a]
    /\ filter' = [filter EXCEPT ![t] = f]
    /\ find_one' = [find_one EXCEPT ![t] = StopFlagOf(a)]
    /\ enum_pos' = [enum_pos EXCEPT ![t] = 1]
    /\ windows' = [windows EXCEPT ![t] = <<>>]
    /\ result' = [result EXCEPT ![t] = <<>>]
    /\ visited' = [visited EXCEPT ![t] = <<>>]
    /\ pushed' = [pushed EXCEPT ![t] = <<>>]
    /\ enum_failed' = [enum_failed EXCEPT ![t] = FALSE]
    /\ UNCHANGED <<WINDOW_COLLECTOR_LOCK, WINDOW_FILTER, STOP_AFTER_FIRST,
                   FOUND_WINDOWS, os_windows, last_found, last_filter>>

\* line 56
AcquireLock(t) ==
    /\ pc[t] = "lock"
    /\ LockAvailable(t)
    /\ WINDOW_COLLECTOR_LOCK' = t
    /\ pc' = [pc EXCEPT ![t] = PcAfter("lock")]
    /\ UNCHANGED <<WINDOW_FILTER, STOP_AFTER_FIRST, FOUND_WINDOWS, os_windows,
                   api, filter, find_one, enum_pos, windows, result, visited,
                   pushed, enum_failed, last_found, last_filter>>

\* line 57
InstallFilter(t) ==
    /\ pc[t] = "install"
    /\ WINDOW_FILTER' = Some(filter[t])
    /\ pc' = [pc EXCEPT ![t] = PcAfter("install")]
    /\ UNCHANGED <<WINDOW_COLLECTOR_LOCK, STOP_AFTER_FIRST, FOUND_WINDOWS,
                   os_windows, api, filter, find_one, enum_pos, windows, result,
                   visited, pushed, enum_failed, last_found, last_filter>>

\* line 58
SetStopAfterFirst(t) ==
    /\ pc[t] = "setstop"
    /\ STOP_AFTER_FIRST' = find_one[t]
    /\ pc' = [pc EXCEPT ![t] = PcAfter("setstop")]
    /\ UNCHANGED <<WINDOW_COLLECTOR_LOCK, WINDOW_FILTER, FOUND_WINDOWS,
                   os_windows, api, filter, find_one, enum_pos, windows, result,
                   visited, pushed, enum_failed, last_found, last_filter>>

\* line 59
ResetFound(t) ==
    /\ pc[t] = "reset"
    /\ FOUND_WINDOWS' = FoundAtSessionStart
    /\ pc' = [pc EXCEPT ![t] = PcAfter("reset")]
    /\ UNCHANGED <<WINDOW_COLLECTOR_LOCK, WINDOW_FILTER, STOP_AFTER_FIRST,
                   os_windows, api, filter, find_one, enum_pos, windows, result,
                   visited, pushed, enum_failed, last_found, last_filter>>

\* line 60 with lines 67-78: EnumWindows reports its next window to the
\* callback; the callback tests it, pushes it on a match, and its return
\* value tells EnumWindows whether to go on.
Callback(t) ==
    /\ pc[t] = "enum"
    /\ enum_pos[t] <= Len(os_windows)
    /\ LET hwnd == os_windows[enum_pos[t]]
           matched == CallbackMatches(hwnd)
       IN  /\ visited' = [visited EXCEPT ![t] = Append(@, hwnd)]
           /\ FOUND_WINDOWS' = IF matched THEN Append(FOUND_WINDOWS, hwnd)
                                          ELSE FOUND_WINDOWS
           /\ pushed' = [pushed EXCEPT ![t] =
                            IF matched THEN Append(@, hwnd) ELSE @]
           /\ IF CallbackReturn(matched)
                 THEN /\ enum_pos' = [enum_pos EXCEPT ![t] = @ + 1]
                      /\ pc' = pc
                 ELSE /\ enum_pos' = enum_pos
                      /\ pc' = [pc EXCEPT ![t] = PcAfter("enum")]
    /\ UNCHANGED <<WINDOW_COLLECTOR_LOCK, WINDOW_FILTER, STOP_AFTER_FIRST,
                   os_windows, api, filter, find_one, windows, result,
                   enum_failed, last_found, last_filter>>

\* line 60: EnumWindows has reported every window and returns.
EnumWindowsEnd(t) ==
    /\ pc[t] = "enum"
    /\ enum_pos[t] > Len(os_windows)
    /\ pc' = [pc EXCEPT ![t] = PcAfter("enum")]
    /\ UNCHANGED <<WINDOW_COLLECTOR_LOCK, WINDOW_FILTER, STOP_AFTER_FIRST,
                   FOUND_WINDOWS, os_windows, api, filter, find_one, enum_pos,
                   windows, result, visited, pushed, enum_failed,
                   last_found, last_filter>>

\* Variant: find inspects the result of EnumWindows and clears the
\* accumulator when it reports failure.
FoundOnEnumFailCleared == <<>>

\* line 60: the BOOL EnumWindows returns is discarded, so after a failed
\* enumeration the accumulator is what the callbacks left in it.
FoundOnEnumFail == FOUND_WINDOWS

\* line 60: EnumWindows fails in the OS, before or between callbacks; its
\* return value is discarded by find.
EnumWindowsFail(t) ==
    /\ pc[t] = "enum"
    /\ enum_pos[t] <= Len(os_windows)
    /\ enum_failed' = [enum_failed EXCEPT ![t] = TRUE]
    /\ FOUND_WINDOWS' = FoundOnEnumFail
    /\ pc' = [pc EXCEPT ![t] = PcAfter("enum")]
    /\ UNCHANGED <<WINDOW_COLLECTOR_LOCK, WINDOW_FILTER, STOP_AFTER_FIRST,
                   os_windows, api, filter, find_one, enum_pos,
                   windows, result, visited, pushed, last_found,
                   last_filter>>

\* line 61
CloneFound(t) ==
    /\ pc[t] = "clone"
    /\ windows' = [windows EXCEPT ![t] = FOUND_WINDOWS]
    /\ FOUND_WINDOWS' = FoundAfterClone
    /\ pc' = [pc EXCEPT ![t] = PcAfter("clone")]
    /\ UNCHANGED <<WINDOW_COLLECTOR_LOCK, WINDOW_FILTER, STOP_AFTER_FIRST,
                   os_windows, api, filter, find_one, enum_pos, result,
                   visited, pushed, enum_failed, last_found, last_filter>>

\* Variant: the guard is leaked instead of dropped.
LockAfterDropKept == WINDOW_COLLECTOR_LOCK

\* line 62: drop(lock) releases the mutex.
LockAfterDrop == NoThread

\* line 62
DropLock(t) ==
    /\ pc[t] = "drop"
    /\ WINDOW_COLLECTOR_LOCK' = LockAfterDrop
    /\ last_found' = Some(windows[t])
    /\ last_filter' = Some(filter[t])
    /\ pc' = [pc EXCEPT ![t] = PcAfter("drop")]
    /\ UNCHANGED <<WINDOW_FILTER, STOP_AFTER_FIRST, FOUND_WINDOWS, os_windows,
                   api, filter, find_one, enum_pos, windows, result, visited,
                   pushed, enum_failed>>

\* line 63, then lines 40-44 (find_one) or line 49 (find_all): the call
\* returns to its caller.
Return(t) ==
    /\ pc[t] = "ret"
    /\ result' = [result EXCEPT ![t] = ApiResult(api[t], windows[t])]
    /\ pc' = [pc EXCEPT ![t] = PcAfter("ret")]
    /\ UNCHANGED <<WINDOW_COLLECTOR_LOCK, WINDOW_FILTER, STOP_AFTER_FIRST,
                   FOUND_WINDOWS, os_windows, api, filter, find_one, enum_pos,
                   windows, visited, pushed, enum_failed, last_found,
                   last_filter>>

NextEnum ==
    \E t \in Threads :
        \/ \E a \in {"find_one", "find_all"}, f \in Filters : Call(t, a, f) /\ UNCHANGED restOfEnum
        \/ AcquireLock(t) /\ UNCHANGED restOfEnum
        \/ InstallFilter(t) /\ UNCHANGED restOfEnum
        \/ SetStopAfterFirst(t) /\ UNCHANGED restOfEnum
        \/ ResetFound(t) /\ UNCHANGED restOfEnum
        \/ Callback(t) /\ UNCHANGED restOfEnum
        \/ EnumWindowsEnd(t) /\ UNCHANGED restOfEnum
        \/ EnumWindowsFail(t) /\ UNCHANGED restOfEnum
        \/ CloneFound(t) /\ UNCHANGED restOfEnum
        \/ DropLock(t) /\ UNCHANGED restOfEnum
        \/ Return(t) /\ UNCHANGED restOfEnum

(***************************************************************************)
(* Claims about the enumeration engine.                                    *)
(***************************************************************************)

\* The positions at which a thread is inside its enumeration session: from
\* the installation of the filter up to the release of the guard.
SessionPcs == {"install", "setstop", "reset", "enum", "clone", "drop"}

\* The subsequence of a window list a filter accepts.
Matches(list, f) == SelectSeq(list, LAMBDA h : h \in f)

\* C1: with two threads running find concurrently, the vector a caller gets
\* back holds exactly the handles its own callback invocations pushed, each
\* accepted by its own filter; nothing pushed in the other session shows up.
C1_NoCrossContamination ==
    \A t \in Threads :
        pc[t] \in {"drop", "ret", "done"} =>
            /\ windows[t] = pushed[t]
            /\ \A i \in 1..Len(windows[t]) : windows[t][i] \in filter[t]

C1_Witness ==
    /\ \A t \in Threads : pc[t] = "done" /\ windows[t] # <<>>
    /\ filter["t1"] # filter["t2"]
    /\ windows["t1"] # windows["t2"]

\* C2: at most one session is active; a thread inside its session owns the
\* lock at every position from filter installation to the copy-out, and the
\* statics change only in steps of the lock's owner.
C2_SessionHoldsLock ==
    /\ [](\A t \in Threads : pc[t] \in SessionPcs => WINDOW_COLLECTOR_LOCK = t)
    /\ [][<<WINDOW_FILTER, STOP_AFTER_FIRST, FOUND_WINDOWS>>'
              # <<WINDOW_FILTER, STOP_AFTER_FIRST, FOUND_WINDOWS>>
            => /\ WINDOW_COLLECTOR_LOCK \in Threads
               /\ WINDOW_COLLECTOR_LOCK' = WINDOW_COLLECTOR_LOCK
               /\ pc[WINDOW_COLLECTOR_LOCK] \in SessionPcs
               /\ \A u \in Threads \ {WINDOW_COLLECTOR_LOCK} :
                     /\ pc'[u] = pc[u]
                     /\ visited'[u] = visited[u]
                     /\ windows'[u] = windows[u]]_vars

C2_Witness ==
    /\ pc["t1"] = "clone"
    /\ pc["t2"] = "lock"
    /\ FOUND_WINDOWS # <<>>

\* C3: a session with stop-after-first pushes at most one handle: the first
\* accepted window is the last one the callback is invoked on.
C3_StopAfterFirst ==
    \A t \in Threads :
        find_one[t] /\ pc[t] \in {"enum", "clone", "drop", "ret", "done"} =>
            /\ Len(pushed[t]) <= 1
            /\ pc[t] \in {"drop", "ret", "done"} => Len(windows[t]) <= 1
            /\ \A i \in 1..Len(visited[t]) :
                  visited[t][i] \in filter[t] => i = Len(visited[t])

C3_Witness ==
    \E t \in Threads :
        /\ pc[t] = "done"
        /\ find_one[t]
        /\ Len(Matches(os_windows, filter[t])) >= 2
        /\ Len(windows[t]) = 1

\* C4: find_one returns the first window, in iteration order, that the
\* filter accepts, and None exactly when no window the enumeration reported
\* is accepted (with an enumeration that ran to its end: when no window of
\* the list is accepted).
C4_FindOneFirstMatch ==
    \A t \in Threads :
        pc[t] = "done" /\ api[t] = "find_one" =>
            LET all == Matches(os_windows, filter[t])
                seen == Matches(visited[t], filter[t])
            IN  /\ IsSome(result[t]) => all # <<>> /\ Unwrap(result[t]) = all[1]
                /\ result[t] = None <=> seen = <<>>
                /\ ~enum_failed[t] => (result[t] = None <=> all = <<>>)

C4_Witness ==
    \E t \in Threads :
        /\ pc[t] = "done"
        /\ api[t] = "find_one"
        /\ IsSome(result[t])
        /\ Unwrap(result[t]) # os_windows[1]
        /\ Len(Matches(os_windows, filter[t])) >= 2

\* C5: find_all returns exactly the windows of the list that the filter
\* accepts, in iteration order, each once, whatever an earlier session left
\* in the accumulator (of an enumeration the OS cut short: exactly the
\* accepted ones among the windows it reported).
C5_FindAllExact ==
    \A t \in Threads :
        pc[t] = "done" /\ api[t] = "find_all" =>
            /\ result[t] = Matches(visited[t], filter[t])
            /\ ~enum_failed[t] => result[t] = Matches(os_windows, filter[t])

C5_Witness ==
    \E t, u \in Threads :
        /\ t # u
        /\ pc[t] = "done" /\ pc[u] = "done"
        /\ api[t] = "find_all"
        /\ ~enum_failed[t]
        /\ last_filter = Some(filter[t])
        /\ filter[t] # filter[u]
        /\ Len(result[t]) >= 2
        /\ Len(result[t]) < Len(os_windows)
        /\ \E i \in 1..Len(windows[u]) : windows[u][i] \notin filter[t]

C11_Original ==
    \A t \in Threads :
        (pc[t] = "done" /\ enum_failed[t]) => windows[t] = <<>>

\* C11 amended: when EnumWindows fails, find signals no error and returns
\* the handles matched before the failure, in visiting order: the empty
\* sequence when no visited window matched, a non-empty partial result
\* otherwise (cut after the first match when stop-after-first is set).
C11_FailureReturnsPartial ==
    \A t \in Threads :
        (pc[t] = "done" /\ enum_failed[t]) =>
            /\ windows[t] = pushed[t]
            /\ windows[t] = Matches(visited[t], filter[t])
            /\ (visited[t] = <<>> => windows[t] = <<>>)
            /\ result[t] = ApiResult(api[t], windows[t])

C11_Witness ==
    \E t \in Threads :
        /\ pc[t] = "done"
        /\ enum_failed[t]
        /\ api[t] = "find_all"
        /\ windows[t] # <<>>
        /\ Len(visited[t]) < Len(os_windows)

\* The steps of thread t inside find and on its way back to the caller.
FindStep(t) ==
    \/ AcquireLock(t) /\ UNCHANGED restOfEnum
    \/ InstallFilter(t) /\ UNCHANGED restOfEnum
    \/ SetStopAfterFirst(t) /\ UNCHANGED restOfEnum
    \/ ResetFound(t) /\ UNCHANGED restOfEnum
    \/ Callback(t) /\ UNCHANGED restOfEnum
    \/ EnumWindowsEnd(t) /\ UNCHANGED restOfEnum
    \/ EnumWindowsFail(t) /\ UNCHANGED restOfEnum
    \/ CloneFound(t) /\ UNCHANGED restOfEnum
    \/ DropLock(t) /\ UNCHANGED restOfEnum
    \/ Return(t) /\ UNCHANGED restOfEnum

\* The filters of the concurrent callers: one that accepts no window, one
\* that accepts one window, one that accepts every window.
FairFilters == { {}, {1}, Handles }

\* Both threads may call find_one or find_all, and run find.
NextFair ==
    \E t \in Threads :
        \/ \E a \in {"find_one", "find_all"}, f \in FairFilters :
               Call(t, a, f) /\ UNCHANGED restOfEnum
        \/ FindStep(t)

\* Fair scheduling: a thread that can take a step of find (the lock is free
\* for a waiting thread, the OS walks on, the filter returns) eventually
\* takes one.  No thread is obliged to call find.
FairScheduling == \A t \in Threads : WF_vars(FindStep(t))

CallReentrant(t, a) ==
    /\ Call(t, a, {})
    /\ reentrant' = [reentrant EXCEPT ![t] = TRUE]

\* line 70: the callback evaluates the filter on the window EnumWindows
\* reports, and the filter enters find (line 54) on this thread.
CallbackReentrant(t) ==
    /\ pc[t] = "enum"
    /\ reentrant[t]
    /\ enum_pos[t] <= Len(os_windows)
    /\ visited' = [visited EXCEPT ![t] = Append(@, os_windows[enum_pos[t]])]
    /\ pc' = [pc EXCEPT ![t] = "inner_lock"]
    /\ UNCHANGED <<WINDOW_COLLECTOR_LOCK, WINDOW_FILTER, STOP_AFTER_FIRST,
                   FOUND_WINDOWS, os_windows, api, filter, find_one, enum_pos,
                   windows, result, pushed, enum_failed, last_found,
                   last_filter>>

\* Variant: the mutex is re-entrant, its owner may lock it again.
InnerLockAcquiresReentrant(t) == TRUE

\* line 56 in the inner call: WINDOW_COLLECTOR_LOCK is a std::sync::Mutex,
\* which its owner cannot lock a second time.
InnerLockAcquires(t) == LockAvailable(t)

\* line 56 in the inner call.  Locking a Mutex the thread already holds
\* never returns: it blocks for ever (no step) or panics, and a panic
\* inside the `extern "system"` callback ends the process.
InnerLock(t) ==
    /\ pc[t] = "inner_lock"
    /\ IF InnerLockAcquires(t)
          THEN pc' = [pc EXCEPT ![t] = "inner_install"]
          ELSE pc' = [u \in Threads |-> "aborted"]
    /\ UNCHANGED <<WINDOW_COLLECTOR_LOCK, WINDOW_FILTER, STOP_AFTER_FIRST,
                   FOUND_WINDOWS, os_windows, api, filter, find_one, enum_pos,
                   windows, result, visited, pushed, enum_failed, last_found,
                   last_filter>>

\* Both threads may call find, with an ordinary filter or with one that
\* calls find.
NextReentrant ==
    \E t \in Threads :
        \/ \E a \in {"find_one", "find_all"}, f \in FairFilters :
               Call(t, a, f) /\ UNCHANGED restOfEnum
        \/ \E a \in {"find_one", "find_all"} :
               CallReentrant(t, a) /\ UNCHANGED <<capVars, styleVars, titleVars>>
        \/ AcquireLock(t) /\ UNCHANGED restOfEnum
        \/ InstallFilter(t) /\ UNCHANGED restOfEnum
        \/ SetStopAfterFirst(t) /\ UNCHANGED restOfEnum
        \/ ResetFound(t) /\ UNCHANGED restOfEnum
        \/ ~reentrant[t] /\ Callback(t) /\ UNCHANGED restOfEnum
        \/ CallbackReentrant(t) /\ UNCHANGED restOfEnum
        \/ InnerLock(t) /\ UNCHANGED restOfEnum
        \/ EnumWindowsEnd(t) /\ UNCHANGED restOfEnum
        \/ EnumWindowsFail(t) /\ UNCHANGED restOfEnum
        \/ CloneFound(t) /\ UNCHANGED restOfEnum
        \/ DropLock(t) /\ UNCHANGED restOfEnum
        \/ Return(t) /\ UNCHANGED restOfEnum

\* C18: once the filter of a session has called find on the session's own
\* thread, the inner call has not acquired the lock, which the outer call
\* still holds, and neither call has returned: the thread is stuck in the
\* inner lock() or the process has died there, and the session has not
\* reached its copy-out step.
C18_NotReentrant ==
    \A t \in Threads :
        (reentrant[t] /\ visited[t] # <<>>) =>
            /\ pc[t] \in {"inner_lock", "aborted"}
            /\ pc[t] = "inner_lock" => WINDOW_COLLECTOR_LOCK = t
            /\ windows[t] = <<>>
            /\ result[t] = <<>>

\* A session is stuck in its inner call while the other thread waits for
\* the lock.
C18_Witness ==
    \E t, u \in Threads :
        /\ reentrant[t]
        /\ pc[t] = "inner_lock"
        /\ WINDOW_COLLECTOR_LOCK = t
        /\ ~reentrant[u]
        /\ pc[u] = "lock"

(***************************************************************************)
(* Part II.  The capture engine.                                           *)
(***************************************************************************)

MinInt == -(2 ^ (IntBits - 1))
MaxInt == 2 ^ (IntBits - 1) - 1

\* Two's-complement wrap of a mathematical integer into the signed word.
Wrap(n) ==
    LET m == n % (2 ^ IntBits)
    IN  IF m > MaxInt THEN m - 2 ^ IntBits ELSE m

Overflows(n) == n < MinInt \/ n > MaxInt

\* Signed arithmetic carrying the overflow flag: in a build with overflow
\* checks a set flag is a panic, otherwise the wrapped value is used.
Lit(v) == [val |-> v, ovf |-> FALSE]
IAdd(x, y) == [val |-> Wrap(x.val + y.val),
               ovf |-> x.ovf \/ y.ovf \/ Overflows(x.val + y.val)]
ISub(x, y) == [val |-> Wrap(x.val - y.val),
               ovf |-> x.ovf \/ y.ovf \/ Overflows(x.val - y.val)]
IMul(x, y) == [val |-> Wrap(x.val * y.val),
               ovf |-> x.ovf \/ y.ovf \/ Overflows(x.val * y.val)]
IMax0(x) == [val |-> IF x.val > 0 THEN x.val ELSE 0, ovf |-> x.ovf]

\* What GetWindowRect, GetClientRect and ClientToScreen report (lines 43-45):
\* the outer rectangle, the client rectangle and the client origin on screen.
\* All zero when the queries fail (the structs stay zeroed).
Geometries ==
    { [window_bounds |-> <<0, 0, 0, 0>>, window_client_bounds |-> <<0, 0, 0, 0>>,
       window_topleft |-> <<0, 0>>],
      [window_bounds |-> <<0, 0, 3, 3>>, window_client_bounds |-> <<0, 0, 2, 2>>,
       window_topleft |-> <<1, 1>>],
      [window_bounds |-> <<1, 1, 3, 3>>, window_client_bounds |-> <<0, 0, 2, 2>>,
       window_topleft |-> <<0, 0>>] }

\* lines 46-51: rectangles are <<left, top, right, bottom>>, points <<x, y>>.
PaddingOf(g) ==
    LET wb == g.window_bounds
        cb == g.window_client_bounds
        tl == g.window_topleft
    IN  << IMax0(ISub(Lit(tl[1]), Lit(wb[1]))),
           IMax0(ISub(Lit(tl[2]), Lit(wb[2]))),
           IMax0(ISub(Lit(wb[3]),
                      IAdd(Lit(tl[1]), ISub(Lit(cb[3]), Lit(cb[1]))))),
           IMax0(ISub(Lit(wb[4]),
                      IAdd(Lit(tl[2]), ISub(Lit(cb[4]), Lit(cb[2]))))) >>

\* variant: a zero width or height is let through
InvalidBoundsZeroAccepted(b) == b[3] < 0 \/ b[4] < 0

\* line 35
InvalidBounds(b) == b[3] <= 0 \/ b[4] <= 0

\* line 54
PaddedSizeOf(b, pad) ==
    << IAdd(IAdd(Lit(b[3]), Lit(pad[1])), Lit(pad[3])),
       IAdd(IAdd(Lit(b[4]), Lit(pad[2])), Lit(pad[4])) >>

\* line 55
InvalidPaddedSize(ps) == ps[1] <= 0 \/ ps[2] <= 0

\* line 109: (padded_size[0] * padded_size[1] * 4) as usize
BitsLenOf(ps) == IMul(IMul(Lit(ps[1]), Lit(ps[2])), Lit(4))

\* variant: `pixels` is given the padded size
PixelsLenOfPadded(b, ps) == IMul(Lit(ps[1]), Lit(ps[2]))

\* line 121: (bounds[2] * bounds[3]) as usize
PixelsLenOf(b, ps) == IMul(Lit(b[3]), Lit(b[4]))

\* variant: the bitmap-creation failure forgets DeleteDC(hdc)
CleanupAtForgetsHdc(site) ==
    CASE site = "GetDC"                  -> <<>>
      [] site = "CreateCompatibleDC"     -> <<"dc">>
      [] site = "CreateCompatibleBitmap" -> <<"dc">>
      [] site = "SelectObject"           -> <<"hbitmap", "hdc", "dc">>
      [] site = "PrintWindow"            -> <<"hold", "hbitmap", "hdc", "dc">>
      [] site = "GetDIBits"              -> <<"hold", "hbitmap", "hdc", "dc">>
      [] site = "Ok"                     -> <<"hold", "hbitmap", "hdc", "dc">>

\* The releases each exit of the function performs, in the order written:
\* "hold" is SelectObject(hdc, hold), "hbitmap" DeleteObject(hbitmap), "hdc"
\* DeleteDC(hdc), "dc" ReleaseDC(hwnd, dc).
CleanupAt(site) ==
    CASE site = "GetDC"                  -> <<>>                                  \* 61-63
      [] site = "CreateCompatibleDC"     -> <<"dc">>                              \* 68
      [] site = "CreateCompatibleBitmap" -> <<"hdc", "dc">>                       \* 75-76
      [] site = "SelectObject"           -> <<"hbitmap", "hdc", "dc">>            \* 83-85
      [] site = "PrintWindow"            -> <<"hold", "hbitmap", "hdc", "dc">>    \* 92-95
      [] site = "GetDIBits"              -> <<"hold", "hbitmap", "hdc", "dc">>    \* 112-115
      [] site = "Ok"                     -> <<"hold", "hbitmap", "hdc", "dc">>    \* 133-136

ErrorAt(site) ==
    CASE site = "GetDC"                  -> "Could not create device context"
      [] site = "CreateCompatibleDC"     -> "Could not create compatible device context."
      [] site = "CreateCompatibleBitmap" -> "Could not create compatible bitmap."
      [] site = "SelectObject"           -> "Could not select the bitmap in the device context."
      [] site = "PrintWindow"            -> "PrintWindow failed"
      [] site = "GetDIBits"              -> "GetDIBits failed."

\* The window as PrintWindow draws it into the bitmap: the colour, as
\* <<red, green, blue>>, of the pixel at a position of the padded bitmap.
WindowPixel(px, py) == <<(16 + px + py) % 256, py % 256, px % 256>>

\* GetDIBits, 32 bits per pixel, top-down: byte j of `bits` is channel j % 4
\* (blue, green, red, unused) of the pixel j \div 4 in row-major order of the
\* padded bitmap.
BitsByte(ps, j) ==
    LET i  == j \div 4
        c  == WindowPixel(i % ps[1], i \div ps[1])
    IN  CASE j % 4 = 0 -> c[3]
          [] j % 4 = 1 -> c[2]
          [] j % 4 = 2 -> c[1]
          [] j % 4 = 3 -> 0

\* u32::from_be_bytes: the u32 is kept as its four bytes, high to low.
FromBeBytes(b0, b1, b2, b3) == <<b0, b1, b2, b3>>

\* line 124: the source position of an output position.
InputXY(x, y, b, pad) == << IAdd(Lit(x), Lit(pad[1])), IAdd(Lit(y), Lit(pad[2])) >>

\* as usize: a negative i32 becomes a value above every vector length.
AsUsize(v) == IF v < 0 THEN 2 ^ (IntBits + 2) + (v - MinInt) ELSE v

\* lines 122-129: the crop loop from output position (x, y) on, with the
\* pixels written so far.  The result is the written pixels, or "panic" on an
\* arithmetic overflow (checked build) or an index out of a vector's bounds.
RECURSIVE CropFrom(_, _, _, _, _, _, _, _, _)
CropFrom(y, x, b, pad, ps, blen, plen, checks, written) ==
    IF y >= b[4] THEN [kind |-> "done", written |-> written]
    ELSE IF x >= b[3] THEN CropFrom(y + 1, 0, b, pad, ps, blen, plen, checks, written)
    ELSE
      LET in  == InputXY(x, y, b, pad)
          oi  == IAdd(IMul(Lit(y), Lit(b[3])), Lit(x))
          ii  == IAdd(IMul(in[2], Lit(ps[1])), in[1])
          ou  == AsUsize(oi.val)
          iu  == AsUsize(ii.val)
      IN  IF checks /\ (in[1].ovf \/ in[2].ovf \/ oi.ovf \/ ii.ovf)
            THEN [kind |-> "panic", written |-> written]
          ELSE IF iu * 4 + 2 >= blen \/ ou >= plen
            THEN [kind |-> "panic", written |-> written]
          ELSE CropFrom(y, x + 1, b, pad, ps, blen, plen, checks,
                        [k \in DOMAIN written \cup {ou} |->
                            IF k = ou
                              THEN FromBeBytes(255, BitsByte(ps, iu * 4 + 2),
                                               BitsByte(ps, iu * 4 + 1),
                                               BitsByte(ps, iu * 4))
                              ELSE written[k]])

\* vec![0x00000000; n] with the loop's writes applied, as a sequence.
PixelsVec(plen, written) ==
    [k \in 1..plen |-> IF (k - 1) \in DOMAIN written THEN written[k - 1]
                                                     ELSE <<0, 0, 0, 0>>]

Pending == <<"Pending">>
NoImage == <<"NoImage">>

\* The arguments of the call: the origin is small, width and height range
\* over the whole signed word.
BoundsInputs ==
    {<<o[1], o[2], w, h>> : o \in {<<0, 0>>, <<1, 1>>}, w \in MinInt..MaxInt,
                            h \in MinInt..MaxInt}

InitCapture ==
    /\ cap_pc = "validate"
    /\ overflow_checks \in BOOLEAN
    /\ bounds \in BoundsInputs
    /\ padding = <<0, 0, 0, 0>>
    /\ padded_size = <<0, 0>>
    /\ acquired = <<>>
    /\ released = <<>>
    /\ bits_len = 0
    /\ pixels_len = 0
    /\ outcome = Pending
    /\ image = NoImage

\* The function returns Err(msg) from `site` after the releases written there.
ReturnErr(site) ==
    /\ released' = released \o CleanupAt(site)
    /\ outcome' = <<"Err", ErrorAt(site)>>
    /\ cap_pc' = "returned"

\* A panic unwinds out of the function: nothing is released.
Panic ==
    /\ outcome' = <<"Panic">>
    /\ cap_pc' = "panicked"

\* lines 35-37
CapValidate ==
    /\ cap_pc = "validate"
    /\ IF InvalidBounds(bounds)
         THEN /\ outcome' = <<"Err", "Invalid bounds size">>
              /\ cap_pc' = "returned"
         ELSE /\ outcome' = outcome
              /\ cap_pc' = "geometry"
    /\ UNCHANGED <<overflow_checks, bounds, padding, padded_size, acquired,
                   released, bits_len, pixels_len, image>>

\* lines 40-51
CapGeometry(g) ==
    /\ cap_pc = "geometry"
    /\ LET pad == PaddingOf(g)
       IN  IF overflow_checks /\ \E i \in 1..4 : pad[i].ovf
             THEN Panic /\ padding' = padding
             ELSE /\ padding' = [i \in 1..4 |-> pad[i].val]
                  /\ cap_pc' = "padded_size"
                  /\ outcome' = outcome
    /\ UNCHANGED <<overflow_checks, bounds, padded_size, acquired, released,
                   bits_len, pixels_len, image>>

\* lines 54-57
CapPaddedSize ==
    /\ cap_pc = "padded_size"
    /\ LET ps == PaddedSizeOf(bounds, padding)
       IN  IF overflow_checks /\ (ps[1].ovf \/ ps[2].ovf)
             THEN Panic /\ padded_size' = padded_size
             ELSE /\ padded_size' = <<ps[1].val, ps[2].val>>
                  /\ IF InvalidPaddedSize(<<ps[1].val, ps[2].val>>)
                       THEN /\ outcome' = <<"Err", "Computed padded size is invalid">>
                            /\ cap_pc' = "returned"
                       ELSE /\ outcome' = outcome
                            /\ cap_pc' = "GetDC"
    /\ UNCHANGED <<overflow_checks, bounds, padding, acquired, released,
                   bits_len, pixels_len, image>>

\* A GDI acquisition at `site`: the OS hands out the resource `res`, or
\* fails and the function returns the error of that site.
Acquire(site, res, next, ok) ==
    /\ cap_pc = site
    /\ IF ok
         THEN /\ acquired' = Append(acquired, res)
              /\ cap_pc' = next
              /\ UNCHANGED <<released, outcome>>
         ELSE /\ ReturnErr(site)
              /\ acquired' = acquired
    /\ UNCHANGED <<overflow_checks, bounds, padding, padded_size, bits_len,
                   pixels_len, image>>

\* lines 60-63
CapGetDC(ok) == Acquire("GetDC", "dc", "CreateCompatibleDC", ok)

\* lines 66-70
CapCreateCompatibleDC(ok) ==
    Acquire("CreateCompatibleDC", "hdc", "CreateCompatibleBitmap", ok)

\* lines 73-78
CapCreateCompatibleBitmap(ok) ==
    Acquire("CreateCompatibleBitmap", "hbitmap", "SelectObject", ok)

\* lines 81-87
CapSelectObject(ok) == Acquire("SelectObject", "hold", "PrintWindow", ok)

\* lines 90-97
CapPrintWindow(ok) ==
    /\ cap_pc = "PrintWindow"
    /\ IF ok
         THEN /\ cap_pc' = "alloc_bits"
              /\ UNCHANGED <<released, outcome>>
         ELSE ReturnErr("PrintWindow")
    /\ UNCHANGED <<overflow_checks, bounds, padding, padded_size, acquired,
                   bits_len, pixels_len, image>>

\* lines 100-109: the allocation of `bits`; a negative length cast to usize
\* exceeds the capacity of a vector.
CapAllocBits ==
    /\ cap_pc = "alloc_bits"
    /\ LET n == BitsLenOf(padded_size)
       IN  IF (overflow_checks /\ n.ovf) \/ n.val < 0
             THEN Panic /\ bits_len' = bits_len
             ELSE /\ bits_len' = n.val
                  /\ cap_pc' = "GetDIBits"
                  /\ outcome' = outcome
    /\ UNCHANGED <<overflow_checks, bounds, padding, padded_size, acquired,
                   released, pixels_len, image>>

\* lines 110-117.  GetDIBits writes padded_size[1] scan lines through the
\* pointer it is given: into a shorter vector that is a write past the
\* allocation, after which the call may return either value or the process
\* may die.
CapGetDIBits(res) ==
    /\ cap_pc = "GetDIBits"
    /\ res \in {"ok", "fail", "crash"}
    /\ res = "crash" => bits_len < padded_size[1] * padded_size[2] * 4
    /\ CASE res = "ok"    -> /\ cap_pc' = "alloc_pixels"
                             /\ UNCHANGED <<released, outcome>>
         [] res = "fail"  -> ReturnErr("GetDIBits")
         [] res = "crash" -> /\ cap_pc' = "crashed"
                             /\ outcome' = <<"Crash">>
                             /\ released' = released
    /\ UNCHANGED <<overflow_checks, bounds, padding, padded_size, acquired,
                   bits_len, pixels_len, image>>

\* line 121
CapAllocPixels ==
    /\ cap_pc = "alloc_pixels"
    /\ LET n == PixelsLenOf(bounds, padded_size)
       IN  IF (overflow_checks /\ n.ovf) \/ n.val < 0
             THEN Panic /\ pixels_len' = pixels_len
             ELSE /\ pixels_len' = n.val
                  /\ cap_pc' = "crop"
                  /\ outcome' = outcome
    /\ UNCHANGED <<overflow_checks, bounds, padding, padded_size, acquired,
                   released, bits_len, image>>

\* lines 122-143: the crop loop, the cleanup and the Ok return.
CapCropAndReturn ==
    /\ cap_pc = "crop"
    /\ LET r == CropFrom(0, 0, bounds, padding, padded_size, bits_len,
                         pixels_len, overflow_checks, <<>>)
       IN  IF r.kind = "panic"
             THEN Panic /\ UNCHANGED <<released, image>>
             ELSE /\ released' = released \o CleanupAt("Ok")
                  /\ image' = [data   |-> PixelsVec(pixels_len, r.written),
                               width  |-> AsUsize(bounds[3]),
                               height |-> AsUsize(bounds[4])]
                  /\ outcome' = <<"Ok">>
                  /\ cap_pc' = "returned"
    /\ UNCHANGED <<overflow_checks, bounds, padding, padded_size, acquired,
                   bits_len, pixels_len>>

NextCapture ==
    \/ CapValidate /\ UNCHANGED restOfCapture
    \/ \E g \in Geometries : CapGeometry(g) /\ UNCHANGED restOfCapture
    \/ CapPaddedSize /\ UNCHANGED restOfCapture
    \/ \E ok \in BOOLEAN : CapGetDC(ok) /\ UNCHANGED restOfCapture
    \/ \E ok \in BOOLEAN : CapCreateCompatibleDC(ok) /\ UNCHANGED restOfCapture
    \/ \E ok \in BOOLEAN : CapCreateCompatibleBitmap(ok) /\ UNCHANGED restOfCapture
    \/ \E ok \in BOOLEAN : CapSelectObject(ok) /\ UNCHANGED restOfCapture
    \/ \E ok \in BOOLEAN : CapPrintWindow(ok) /\ UNCHANGED restOfCapture
    \/ CapAllocBits /\ UNCHANGED restOfCapture
    \/ \E res \in {"ok", "fail", "crash"} : CapGetDIBits(res) /\ UNCHANGED restOfCapture
    \/ CapAllocPixels /\ UNCHANGED restOfCapture
    \/ CapCropAndReturn /\ UNCHANGED restOfCapture

\* No capture call is in progress.
CaptureParked ==
    /\ cap_pc = "idle"
    /\ overflow_checks = FALSE
    /\ bounds = <<0, 0, 0, 0>>
    /\ padding = <<0, 0, 0, 0>>
    /\ padded_size = <<0, 0>>
    /\ acquired = <<>>
    /\ released = <<>>
    /\ bits_len = 0
    /\ pixels_len = 0
    /\ outcome = Pending
    /\ image = NoImage

\* No thread enumerates and the OS has no window.
EnumParked ==
    /\ InitEnum
    /\ os_windows = <<>>

(***************************************************************************)
(* Claims about the capture engine.                                        *)
(***************************************************************************)

Reverse(q) == [i \in 1..Len(q) |-> q[Len(q) + 1 - i]]

\* The acquisitions of the function, in the order it makes them.
AcquisitionOrder == <<"dc", "hdc", "hbitmap", "hold">>

\* C6: whenever the capture returns, with Ok or with the error of any of
\* its stages, what it acquired (the device context, the compatible context,
\* the bitmap, the selection, in that order and each once) has been released
\* in exactly the reverse order, nothing else has been released, and nothing
\* is released before the function is on its way out.
C6_ReleaseInReverse ==
    /\ acquired = SubSeq(AcquisitionOrder, 1, Len(acquired))
    /\ cap_pc = "returned" => released = Reverse(acquired)
    /\ cap_pc # "returned" => released = <<>>

C6_Witness ==
    /\ cap_pc = "returned"
    /\ outcome = <<"Err", "PrintWindow failed">>
    /\ released = <<"hold", "hbitmap", "hdc", "dc">>

\* The padded size line 54 derives from the argument and the padding.
DerivedPadded ==
    <<Wrap(bounds[3] + padding[1] + padding[3]),
      Wrap(bounds[4] + padding[2] + padding[4])>>

\* C7: a request with width or height <= 0 returns "Invalid bounds size",
\* and one whose derived padded size is <= 0 in a dimension returns
\* "Computed padded size is invalid", in both cases with nothing acquired
\* and nothing released.  (A padded size <= 0 arises from a positive size
\* only by wrapping; a build with overflow checks panics on that sum, also
\* with nothing acquired.)
C7_InvalidInputBeforeResources ==
    /\ (cap_pc # "validate" /\ (bounds[3] <= 0 \/ bounds[4] <= 0)) =>
          /\ cap_pc = "returned"
          /\ outcome = <<"Err", "Invalid bounds size">>
          /\ acquired = <<>> /\ released = <<>>
    /\ (/\ cap_pc \notin {"validate", "geometry", "padded_size"}
        /\ bounds[3] > 0 /\ bounds[4] > 0
        /\ (DerivedPadded[1] <= 0 \/ DerivedPadded[2] <= 0)) =>
          /\ acquired = <<>> /\ released = <<>>
          /\ IF overflow_checks
               THEN cap_pc = "panicked"
               ELSE /\ cap_pc = "returned"
                    /\ outcome = <<"Err", "Computed padded size is invalid">>

C7_Witness ==
    /\ cap_pc = "returned"
    /\ outcome = <<"Err", "Computed padded size is invalid">>
    /\ bounds[3] > 0 /\ bounds[4] > 0
    /\ acquired = <<>>

\* C8: a capture that returns Ok returns an image whose width and height
\* are the requested ones and whose data holds width * height pixels, for
\* every width and height of the signed word.
C8_ImageSize ==
    (cap_pc = "returned" /\ outcome = <<"Ok">>) =>
        /\ bounds[3] > 0 /\ bounds[4] > 0
        /\ image.width = bounds[3]
        /\ image.height = bounds[4]
        /\ Len(image.data) = bounds[3] * bounds[4]

C8_Witness ==
    /\ cap_pc = "returned"
    /\ outcome = <<"Ok">>
    /\ bounds[3] * bounds[4] >= 2
    /\ padding # <<0, 0, 0, 0>>
    /\ Len(image.data) = bounds[3] * bounds[4]

\* The pixel value the capture stores for a window colour.
Opaque(c) == FromBeBytes(255, c[1], c[2], c[3])

\* C9: a capture of [x0, y0, w, h] that returns Ok holds, at output position
\* (x, y), the window pixel at padded position
\* (x0 + x + left padding, y0 + y + top padding).
C9_RegionStartsAtOrigin ==
    (cap_pc = "returned" /\ outcome = <<"Ok">>) =>
        \A x \in 0..(bounds[3] - 1), y \in 0..(bounds[4] - 1) :
            image.data[y * bounds[3] + x + 1] =
                Opaque(WindowPixel(bounds[1] + x + padding[1],
                                   bounds[2] + y + padding[2]))

\* line 126: the source pixel index of output position (x, y), as the
\* program computes it.
InputIndex(x, y) ==
    LET in == InputXY(x, y, bounds, padding)
    IN  IAdd(IMul(in[2], Lit(padded_size[1])), in[1])

\* line 125: the output index of output position (x, y).
OutputIndex(x, y) == IAdd(IMul(Lit(y), Lit(bounds[3])), Lit(x))

\* C19: when the crop loop starts, on a size with width > 0 and height > 0
\* and a padding with no negative side, every source pixel index is below
\* paddedWidth * paddedHeight and its bytes lie inside `bits`, every output
\* index lies inside `pixels`, no two output positions share an output
\* index, and the loop writes every output index.
C19_CropInBounds ==
    cap_pc = "crop" =>
        LET W == bounds[3]
            H == bounds[4]
            r == CropFrom(0, 0, bounds, padding, padded_size, bits_len,
                          pixels_len, overflow_checks, <<>>)
        IN  /\ W > 0 /\ H > 0
            /\ \A i \in 1..4 : padding[i] >= 0
            /\ \A x \in 0..(W - 1), y \in 0..(H - 1) :
                   /\ InputIndex(x, y).val >= 0
                   /\ InputIndex(x, y).val
                          < padded_size[1] * padded_size[2]
                   /\ AsUsize(InputIndex(x, y).val) * 4 + 3 < bits_len
                   /\ OutputIndex(x, y).val = y * W + x
                   /\ AsUsize(OutputIndex(x, y).val) < pixels_len
            /\ r.kind = "done"
            /\ DOMAIN r.written = 0..(W * H - 1)

(***************************************************************************)
(* Part III.  The batched style edit (window_style.rs).                    *)
(*                                                                         *)
(* The style words are u32 in the program; the model keeps the bit         *)
(* operations and scales the word to StyleBits bits.  The flags the        *)
(* program names sit at the positions given below.                         *)
(***************************************************************************)
StyleBits == 2
Words == 0..(2 ^ StyleBits - 1)

Edits == {"e1", "e2"}
NoEdit == "none"

\* line 93: WS_CAPTION, in the style word.
WS_CAPTION == 1
\* line 77: WS_EX_LAYERED and WS_EX_TRANSPARENT, in the extended style word.
WS_EX_LAYERED == 1
WS_EX_TRANSPARENT == 2

RECURSIVE BitOrN(_, _, _)
BitOrN(a, b, n) ==
    IF n = 0 THEN 0
    ELSE (IF a % 2 = 1 \/ b % 2 = 1 THEN 1 ELSE 0)
         + 2 * BitOrN(a \div 2, b \div 2, n - 1)

RECURSIVE BitAndNotN(_, _, _)
BitAndNotN(a, b, n) ==
    IF n = 0 THEN 0
    ELSE (IF a % 2 = 1 /\ b % 2 = 0 THEN 1 ELSE 0)
         + 2 * BitAndNotN(a \div 2, b \div 2, n - 1)

\* a | b and a & !b on words
BitOr(a, b) == BitOrN(a, b, StyleBits)
BitAndNot(a, b) == BitAndNotN(a, b, StyleBits)

\* lines 25-26: `as u32` of the isize GetWindowLongPtrW returns.
AsU32(v) == v % (2 ^ StyleBits)

\* lines 54-55: `as isize` of a u32, and the word SetWindowLongPtrW stores.
AsIsize(w) == w

\* Variant: set_style assigns the flags instead of or-ing them in.
SetStyleFlagsAssign(cur, flags) == flags

\* lines 39-40: `|=`
SetStyleFlags(cur, flags) == BitOr(cur, flags)

\* lines 45-46: `&= !`
RemoveStyleFlags(cur, flags) == BitAndNot(cur, flags)

\* A colour 0xAARRGGBB as its bytes <<aa, rr, gg, bb>>.
Colors == { <<0, 1, 2, 3>> }

\* line 75: the bytes of color_bbggrr.
ColorBbggrr(c) == <<c[1], c[4], c[3], c[2]>>

\* Arguments of set_position, and the rectangle the window starts with.
Positions == { <<0, 0, 2, 3>>, <<1, 2, 3, 4>>, <<2, 0, 1, 1>> }
InitialRect == <<4, 5, 6, 7>>

\* The OS call SetWindowPos(hwnd, after, X, Y, cx, cy, flags) on the
\* rectangle: SWP_NOMOVE keeps the origin, SWP_NOSIZE keeps the size, and
\* cx, cy are the new width and height.
SetWindowPosRect(rect, X, Y, cx, cy, keep) ==
    IF keep THEN rect ELSE <<X, Y, cx, cy>>

\* window_controller.rs lines 108-111: set_pos passes position[2] and
\* position[3] as cx and cy.
SetPosRect(rect, position) ==
    SetWindowPosRect(rect, position[1], position[2], position[3],
                     position[4], FALSE)

\* lines 57-61: the rectangle apply leaves.  With a target position the
\* flags are 0 and cx, cy are position[0] + position[2] and
\* position[1] + position[3]; without one SWP_NOMOVE | SWP_NOSIZE is set.
AppliedRect(rect, target) ==
    IF IsSome(target)
    THEN LET position == Unwrap(target) IN
         SetWindowPosRect(rect, position[1], position[2],
                          Wrap(position[1] + position[3]),
                          Wrap(position[2] + position[4]), FALSE)
    ELSE SetWindowPosRect(rect, 0, 0, Wrap(0 + 0), Wrap(0 + 0), TRUE)

\* line 61: the insert-after argument is HWND_TOPMOST or HWND_NOTOPMOST and
\* no flag says SWP_NOZORDER, so the band of the window is set either way.
AppliedTopmost(aot) == aot

\* Variant: apply reads the word back and merges the object's flags in.
StyleWrittenMerged(e) == BitOr(win_style, style_flags[e])

\* line 54: the word written to GWL_STYLE.
StyleWritten(e) == AsIsize(style_flags[e])

\* line 55: the word written to GWL_EXSTYLE.
ExStyleWritten(e) == AsIsize(extended_style_flags[e])

\* line 81: SetLayeredWindowAttributes(hwnd, key, 0, LWA_COLORKEY) acts on
\* the window at once; the OS accepts it only on a window whose extended
\* style already has WS_EX_LAYERED.
LayeredColorKey(exstyle, current, key) ==
    IF BitAndNot(WS_EX_LAYERED, exstyle) = 0 THEN Some(key) ELSE current

NoOp == <<"none">>
NoSnapshot == [style |-> 0, exstyle |-> 0, topmost |-> FALSE,
               rect |-> InitialRect]

\* The window before any WindowStyle object exists.
InitStyle ==
    /\ win_style \in Words
    /\ win_exstyle \in Words
    /\ win_topmost \in BOOLEAN
    /\ win_rect = InitialRect
    /\ win_colorkey = None
    /\ epc = [e \in Edits |-> "none"]
    /\ style_flags = [e \in Edits |-> 0]
    /\ extended_style_flags = [e \in Edits |-> 0]
    /\ always_on_top = [e \in Edits |-> FALSE]
    /\ target_position = [e \in Edits |-> None]
    /\ snapshot = [e \in Edits |-> NoSnapshot]
    /\ ops = [e \in Edits |-> "none"]
    /\ last_op = [e \in Edits |-> NoOp]
    /\ setter_calls = [e \in Edits |-> {}]
    /\ last_applied = NoEdit

\* lines 17-31
New(e) ==
    /\ epc[e] = "none"
    /\ epc' = [epc EXCEPT ![e] = "open"]
    /\ style_flags' = [style_flags EXCEPT ![e] = AsU32(win_style)]
    /\ extended_style_flags' =
           [extended_style_flags EXCEPT ![e] = AsU32(win_exstyle)]
    /\ always_on_top' = [always_on_top EXCEPT ![e] = FALSE]
    /\ target_position' = [target_position EXCEPT ![e] = None]
    /\ snapshot' = [snapshot EXCEPT ![e] =
                        [style |-> win_style, exstyle |-> win_exstyle,
                         topmost |-> win_topmost, rect |-> win_rect]]
    /\ UNCHANGED <<win_style, win_exstyle, win_topmost, win_rect,
                   win_colorkey, ops, last_op, setter_calls, last_applied>>

\* History of the setter calls on e.
Called(e, op) ==
    /\ epc[e] = "open"
    /\ ops' = [ops EXCEPT ![e] = IF ops[e] = "none" THEN "one" ELSE "many"]
    /\ last_op' = [last_op EXCEPT ![e] = IF ops[e] = "none" THEN op ELSE NoOp]

\* lines 38-41
SetStyle(e, flags, extended_flags) ==
    /\ Called(e, <<"set_style", flags, extended_flags>>)
    /\ style_flags' =
           [style_flags EXCEPT ![e] = SetStyleFlags(style_flags[e], flags)]
    /\ extended_style_flags' =
           [extended_style_flags EXCEPT ![e] =
                SetStyleFlags(extended_style_flags[e], extended_flags)]
    /\ UNCHANGED <<win_style, win_exstyle, win_topmost, win_rect,
                   win_colorkey, epc, always_on_top, target_position,
                   snapshot, setter_calls, last_applied>>

\* lines 44-47
RemoveStyle(e, flags, extended_flags) ==
    /\ Called(e, <<"remove_style", flags, extended_flags>>)
    /\ style_flags' =
           [style_flags EXCEPT ![e] = RemoveStyleFlags(style_flags[e], flags)]
    /\ extended_style_flags' =
           [extended_style_flags EXCEPT ![e] =
                RemoveStyleFlags(extended_style_flags[e], extended_flags)]
    /\ UNCHANGED <<win_style, win_exstyle, win_topmost, win_rect,
                   win_colorkey, epc, always_on_top, target_position,
                   snapshot, setter_calls, last_applied>>

\* lines 89-99
SetCaption(e, show_caption) ==
    /\ Called(e, <<"set_caption", show_caption>>)
    /\ style_flags' =
           [style_flags EXCEPT ![e] =
                IF show_caption
                THEN SetStyleFlags(style_flags[e], WS_CAPTION)
                ELSE RemoveStyleFlags(style_flags[e], WS_CAPTION)]
    /\ extended_style_flags' =
           [extended_style_flags EXCEPT ![e] =
                IF show_caption
                THEN SetStyleFlags(extended_style_flags[e], 0)
                ELSE RemoveStyleFlags(extended_style_flags[e], 0)]
    /\ UNCHANGED <<win_style, win_exstyle, win_topmost, win_rect,
                   win_colorkey, epc, always_on_top, target_position,
                   snapshot, setter_calls, last_applied>>

\* lines 70-86: the flags are accumulated (line 77), the colour key is
\* handed to the OS at once (line 81).
SetTranscolor(e, color) ==
    /\ Called(e, <<"set_transcolor", color>>)
    /\ style_flags' =
           [style_flags EXCEPT ![e] = SetStyleFlags(style_flags[e], 0)]
    /\ extended_style_flags' =
           [extended_style_flags EXCEPT ![e] =
                SetStyleFlags(extended_style_flags[e],
                              BitOr(WS_EX_LAYERED, WS_EX_TRANSPARENT))]
    /\ win_colorkey' =
           LayeredColorKey(win_exstyle, win_colorkey, ColorBbggrr(color))
    /\ setter_calls' =
           [setter_calls EXCEPT ![e] = @ \cup {"SetLayeredWindowAttributes"}]
    /\ UNCHANGED <<win_style, win_exstyle, win_topmost, win_rect, epc,
                   always_on_top, target_position, snapshot, last_applied>>

\* lines 102-105
SetAlwaysOnTop(e, on_top) ==
    /\ Called(e, <<"set_always_on_top", on_top>>)
    /\ always_on_top' = [always_on_top EXCEPT ![e] = on_top]
    /\ UNCHANGED <<win_style, win_exstyle, win_topmost, win_rect,
                   win_colorkey, epc, style_flags, extended_style_flags,
                   target_position, snapshot, setter_calls, last_applied>>

\* lines 108-111
SetPosition(e, position) ==
    /\ Called(e, <<"set_position", position>>)
    /\ target_position' = [target_position EXCEPT ![e] = Some(position)]
    /\ UNCHANGED <<win_style, win_exstyle, win_topmost, win_rect,
                   win_colorkey, epc, style_flags, extended_style_flags,
                   always_on_top, snapshot, setter_calls, last_applied>>

\* lines 50-63: the three OS calls of apply, in order.
ApplyToWindow(e) ==
    /\ win_style' = StyleWritten(e)
    /\ win_exstyle' = ExStyleWritten(e)
    /\ win_rect' = AppliedRect(win_rect, target_position[e])
    /\ win_topmost' = AppliedTopmost(always_on_top[e])
    /\ last_applied' = e
    /\ UNCHANGED win_colorkey

\* lines 50-63: apply called by the owner; the object stays alive.
Apply(e) ==
    /\ epc[e] = "open"
    /\ ApplyToWindow(e)
    /\ UNCHANGED <<epc, style_flags, extended_style_flags, always_on_top,
                   target_position, snapshot, ops, last_op, setter_calls>>

\* lines 113-117: the object goes out of scope.
Drop(e) ==
    /\ epc[e] = "open"
    /\ ApplyToWindow(e)
    /\ epc' = [epc EXCEPT ![e] = "dropped"]
    /\ UNCHANGED <<style_flags, extended_style_flags, always_on_top,
                   target_position, snapshot, ops, last_op, setter_calls>>

\* Someone else (another program, the user) changes the style word of the
\* window, which the OS owns.
ExternalChange(w) ==
    /\ w # win_style
    /\ win_style' = w
    /\ last_applied' = NoEdit
    /\ UNCHANGED <<win_exstyle, win_topmost, win_rect, win_colorkey, epc,
                   style_flags, extended_style_flags, always_on_top,
                   target_position, snapshot, ops, last_op, setter_calls>>

\* Arguments of set_style and remove_style: flags for one word, for the
\* other, or the same flags for both.
FlagPairs == { fx \in Words \X Words : fx[1] = 0 \/ fx[2] = 0 \/ fx[1] = fx[2] }

\* One WindowStyle object from its creation to the end of its scope, every
\* setter.
NextStyle ==
    \E e \in {"e1"} :
        \/ New(e) /\ UNCHANGED restOfStyle
        \/ \E fx \in FlagPairs : SetStyle(e, fx[1], fx[2]) /\ UNCHANGED restOfStyle
        \/ \E fx \in FlagPairs : RemoveStyle(e, fx[1], fx[2]) /\ UNCHANGED restOfStyle
        \/ \E b \in BOOLEAN : SetCaption(e, b) /\ UNCHANGED restOfStyle
        \/ \E c \in Colors : SetTranscolor(e, c) /\ UNCHANGED restOfStyle
        \/ \E b \in BOOLEAN : SetAlwaysOnTop(e, b) /\ UNCHANGED restOfStyle
        \/ \E p \in Positions : SetPosition(e, p) /\ UNCHANGED restOfStyle
        \/ Drop(e) /\ UNCHANGED restOfStyle

\* Two WindowStyle objects of the same window alive at once, and the rest
\* of the system: each object makes one change to the style word, may be
\* applied before its scope ends, and is applied when it ends.
NextOverlap ==
    \/ \E e \in Edits :
        \/ New(e) /\ UNCHANGED restOfStyle
        \/ \E f \in Words : ops[e] = "none" /\ SetStyle(e, f, 0) /\ UNCHANGED restOfStyle
        \/ \E f \in Words : ops[e] = "none" /\ RemoveStyle(e, f, 0) /\ UNCHANGED restOfStyle
        \/ Apply(e) /\ UNCHANGED restOfStyle
        \/ Drop(e) /\ UNCHANGED restOfStyle
    \/ \E w \in Words : ExternalChange(w) /\ UNCHANGED restOfStyle

\* No WindowStyle object is created.
StyleParked ==
    /\ InitStyle
    /\ win_style = 0
    /\ win_exstyle = 0
    /\ win_topmost = FALSE

\* No title is read.
TitleParked ==
    /\ window_titles = [h \in Handles |-> <<>>]
    /\ needle = <<>>

\* No filter calls find.
ReentrantParked == reentrant = [t \in Threads |-> FALSE]

\* The window of two overlapping edits of the style word.
InitOverlap ==
    /\ InitStyle
    /\ win_exstyle = 0
    /\ win_topmost = FALSE

(***************************************************************************)
(* Claims about the batched style edit.                                    *)
(***************************************************************************)

\* Every bit of f is set in w.
HasAll(w, f) == BitAndNot(f, w) = 0
\* No bit of f is set in w.
HasNone(w, f) == BitAndNot(w, f) = w
\* w and v agree on every bit outside f.
SameOutside(w, v, f) == BitAndNot(w, f) = BitAndNot(v, f)

\* C12: an edit created on a window with any style words, on which
\* set_style(F, X) is the only setter called, leaves after it applied a style
\* word with every bit of F set and every bit outside F as it was at
\* creation, and an extended word with every bit of X set and every bit
\* outside X as it was; with remove_style(F, X) as the only setter the bits
\* of F, and of X, are cleared and the bits outside are as they were.
C12_StyleRoundTrip ==
    \A e \in Edits :
        (epc[e] = "dropped" /\ last_applied = e /\ ops[e] = "one") =>
            LET op == last_op[e] IN
            /\ op[1] = "set_style" =>
                   /\ HasAll(AsU32(win_style), op[2])
                   /\ SameOutside(AsU32(win_style), snapshot[e].style, op[2])
                   /\ HasAll(AsU32(win_exstyle), op[3])
                   /\ SameOutside(AsU32(win_exstyle), snapshot[e].exstyle,
                                  op[3])
            /\ op[1] = "remove_style" =>
                   /\ HasNone(AsU32(win_style), op[2])
                   /\ SameOutside(AsU32(win_style), snapshot[e].style, op[2])
                   /\ HasNone(AsU32(win_exstyle), op[3])
                   /\ SameOutside(AsU32(win_exstyle), snapshot[e].exstyle,
                                  op[3])

C12_Witness ==
    \E e \in Edits :
        /\ epc[e] = "dropped"
        /\ ops[e] = "one"
        /\ last_op[e][1] = "set_style"
        /\ last_op[e][2] # 0
        /\ last_op[e][3] # 0
        /\ ~HasAll(snapshot[e].style, last_op[e][2])
        /\ ~HasAll(snapshot[e].exstyle, last_op[e][3])
        /\ snapshot[e].style # 0
        /\ win_style # snapshot[e].style
        /\ win_exstyle # snapshot[e].exstyle

\* C13: while an edit is open no setter has issued a call that changes the
\* window, and the window is as it was when the edit was created; once the
\* scope has ended the window holds the accumulated style words, band and
\* position.
C13_NoMutationWhileOpen ==
    \A e \in Edits :
        /\ epc[e] = "open" =>
               /\ setter_calls[e] = {}
               /\ win_style = snapshot[e].style
               /\ win_exstyle = snapshot[e].exstyle
               /\ win_topmost = snapshot[e].topmost
               /\ win_rect = snapshot[e].rect
               /\ win_colorkey = None
        /\ (epc[e] = "dropped" /\ last_applied = e) =>
               /\ win_style = style_flags[e]
               /\ win_exstyle = extended_style_flags[e]
               /\ win_topmost = always_on_top[e]
               /\ IsSome(target_position[e]) =>
                      /\ win_rect[1] = Unwrap(target_position[e])[1]
                      /\ win_rect[2] = Unwrap(target_position[e])[2]

\* C16: once an edit on which set_position([x, y, w, h]) was the only setter
\* called has been applied, the window's origin is (x, y) and its size is
\* w by h, which is the rectangle set_pos([x, y, w, h]) produces.
C16_PositionApplied ==
    \A e \in Edits :
        (/\ epc[e] = "dropped" /\ last_applied = e
         /\ ops[e] = "one" /\ last_op[e][1] = "set_position") =>
            LET position == last_op[e][2] IN
            /\ win_rect = position
            /\ win_rect = SetPosRect(snapshot[e].rect, position)

\* C17: once an edit has been applied on which set_always_on_top was not
\* called, the window is in the band it was in when the edit was created;
\* once one has been applied on which set_position was not called, the
\* window has the rectangle it had.
C17_OptionalPartsKeepWindow ==
    \A e \in Edits :
        (epc[e] = "dropped" /\ last_applied = e /\ ops[e] # "many") =>
            /\ (ops[e] = "none" \/ last_op[e][1] # "set_always_on_top") =>
                   win_topmost = snapshot[e].topmost
            /\ (ops[e] = "none" \/ last_op[e][1] # "set_position") =>
                   win_rect = snapshot[e].rect

\* C20: the window's style word, once the scope of an edit E has ended and
\* nobody has written the word since, is the word E read at its creation
\* with E's own change merged in, whatever another edit or anyone else wrote
\* to the window between the creation of E and its application.
C20_LastAppliedWins ==
    \A e \in Edits :
        (last_applied = e /\ epc[e] = "dropped") =>
            /\ win_style = style_flags[e]
            /\ ops[e] = "none" => win_style = snapshot[e].style
            /\ (ops[e] = "one" /\ last_op[e][1] = "set_style") =>
                   win_style = BitOr(snapshot[e].style, last_op[e][2])
            /\ (ops[e] = "one" /\ last_op[e][1] = "remove_style") =>
                   win_style = BitAndNot(snapshot[e].style, last_op[e][2])

\* Two edits created on the same style word; the one applied first set
\* flags the window did not have, the one applied last has wiped them.
C20_Witness ==
    \E e, u \in Edits :
        /\ e # u
        /\ epc[e] = "dropped" /\ epc[u] = "dropped"
        /\ last_applied = e
        /\ snapshot[e].style = snapshot[u].style
        /\ ops[u] = "one" /\ last_op[u][1] = "set_style"
        /\ ~HasAll(snapshot[u].style, last_op[u][2])
        /\ HasNone(win_style, BitAndNot(last_op[u][2], snapshot[u].style))
        /\ ops[e] = "one"
        /\ win_style # snapshot[e].style

(***************************************************************************)
(* Part IV.  Titles and find_by_title (window_controller.rs).               *)
(*                                                                         *)
(* A window title is the sequence of UTF-16 code units the OS holds; a     *)
(* Rust string is the sequence of its chars (code points).  The titles     *)
(* below use 'A' (65), 'B' (66) and U+0141 (321), none of them a surrogate. *)
(***************************************************************************)
Titles == { <<>>, <<65>>, <<66>>, <<321>>, <<66, 65>>, <<66, 321>> }

\* Arguments of find_by_title.
Needles == { <<65>>, <<321>>, <<66, 65>>, <<66, 321>> }

\* line 162: the length of `buffer`.
TitleBufferLen == 255

\* line 163: GetWindowTextW(hwnd, buffer, nMaxCount) copies at most
\* nMaxCount - 1 units and returns how many it copied.
GetWindowTextW(text, nMaxCount) ==
    IF Len(text) < nMaxCount THEN Len(text) ELSE nMaxCount - 1

\* line 164: `buffer[index] as u8 as char`: the low byte of the unit, as
\* the char with that code.
AsU8AsChar(unit) == unit % 256

\* lines 160-166
Title(h) ==
    LET length == GetWindowTextW(window_titles[h], TitleBufferLen) IN
    [index \in 1..length |-> AsU8AsChar(window_titles[h][index])]

\* str::contains
Contains(haystack, pattern) ==
    \E i \in 0..(Len(haystack) - Len(pattern)) :
        SubSeq(haystack, i + 1, i + Len(pattern)) = pattern

\* line 34: the closure `|window| window.title().contains(&title)`, as the
\* set of handles it accepts.
TitleFilter(title) == { h \in Handles : Contains(Title(h), title) }

\* The windows have titles, a caller has a title to look for.
InitTitle ==
    /\ window_titles \in [Handles -> Titles]
    /\ needle \in Needles

\* lines 32-35
FindByTitle(t) == Call(t, "find_one", TitleFilter(needle))

\* One thread calls find_by_title.
NextTitle ==
    \E t \in {"t1"} :
        \/ FindByTitle(t) /\ UNCHANGED restOfEnum
        \/ AcquireLock(t) /\ UNCHANGED restOfEnum
        \/ InstallFilter(t) /\ UNCHANGED restOfEnum
        \/ SetStopAfterFirst(t) /\ UNCHANGED restOfEnum
        \/ ResetFound(t) /\ UNCHANGED restOfEnum
        \/ Callback(t) /\ UNCHANGED restOfEnum
        \/ EnumWindowsEnd(t) /\ UNCHANGED restOfEnum
        \/ EnumWindowsFail(t) /\ UNCHANGED restOfEnum
        \/ CloneFound(t) /\ UNCHANGED restOfEnum
        \/ DropLock(t) /\ UNCHANGED restOfEnum
        \/ Return(t) /\ UNCHANGED restOfEnum

(***************************************************************************)
(* Claims about find_by_title.                                             *)
(***************************************************************************)

\* The title of window h as text: its code units are its chars.
TitleText(h) == window_titles[h]

\* C14: when find_by_title(X) has returned a window, title() on that window
\* gives a string that contains X; when no window of the system has a title
\* that contains X, find_by_title(X) has returned the absent result.
C14_FindByTitle ==
    \A t \in Threads :
        pc[t] = "done" =>
            /\ IsSome(result[t]) =>
                   Contains(Title(Unwrap(result[t])), needle)
            /\ (\A i \in 1..Len(os_windows) :
                    ~Contains(TitleText(os_windows[i]), needle))
                   => result[t] = None

(***************************************************************************)
(* Specifications.  Each runs one part of the model, the variables of the  *)
(* other parts keep their parked values.                                   *)
(*   Spec           the threads enumerate, any filter                      *)
(*   SpecFair       the threads enumerate, under fair scheduling           *)
(*   SpecReentrant  the threads enumerate, filters may call find           *)
(*   SpecTitle      one thread calls find_by_title                         *)
(*   SpecCapture    one capture call                                       *)
(*   SpecStyle      one WindowStyle object                                 *)
(*   SpecOverlap    two WindowStyle objects of one window                  *)
(***************************************************************************)
Init == InitEnum /\ CaptureParked /\ StyleParked /\ TitleParked /\ ReentrantParked
Next == NextEnum
Spec == Init /\ [][Next]_vars

SpecFair == Init /\ [][NextFair]_vars /\ FairScheduling

SpecReentrant == Init /\ [][NextReentrant]_vars

InitCap == InitCapture /\ EnumParked /\ StyleParked /\ TitleParked /\ ReentrantParked
NextCap == NextCapture
SpecCapture == InitCap /\ [][NextCap]_vars

InitStyleSpec == InitStyle /\ EnumParked /\ CaptureParked /\ TitleParked /\ ReentrantParked
SpecStyle == InitStyleSpec /\ [][NextStyle]_vars

InitOverlapSpec == InitOverlap /\ EnumParked /\ CaptureParked /\ TitleParked /\ ReentrantParked
SpecOverlap == InitOverlapSpec /\ [][NextOverlap]_vars

InitTitleSpec == InitEnum /\ InitTitle /\ CaptureParked /\ StyleParked /\ ReentrantParked
SpecTitle == InitTitleSpec /\ [][NextTitle]_vars

====
